---- MODULE Spec2Model ----
(***************************************************************************)
(* State-machine model of swimrankingsscraper.py: the SessionManager       *)
(* (request-rate governor) and the ScraperMixin page cache that every      *)
(* extractor (Athlete, Meet, Result, Meets, Club) inherits.                *)
(*                                                                         *)
(* Time is a discrete clock `now` (the value returned by time.time()).     *)
(* A call of ScraperMixin._get_page_content is executed statement by       *)
(* statement by a thread; pc[t] is the statement the thread is at.  Spec   *)
(* runs one thread (sequential callers), ConcSpec runs two.                *)
(*                                                                         *)
(* The extractor methods (list_personal_bests ... list_athletes) build a   *)
(* parameter mapping, call _get_page_content and walk the returned         *)
(* document.  MethodSpec runs them on one extractor instance against a     *)
(* remote site whose page changes over time.                               *)
(***************************************************************************)
EXTENDS Integers, Sequences, FiniteSets, TLC

\* ---------------------------------------------------------------- bounds
MaxTime == 2          \* the clock runs from 0 to MaxTime
MaxFetches == 3       \* no new call starts once this many refreshes were admitted

\* ------------------------------------------------------- finite universes
Threads == {"t1", "t2"}
SeqThreads == {"t1"}
Extractors == {"athlete", "meet"}
Params == {[page |-> "meetDetail"],
           [page |-> "meetDetail", gender |-> 1]}
Outcomes == {"ok", "nobody", "httperr", "transport"}
RateConfigs == {<<1, 1>>, <<2, 1>>, <<2, 2>>}
UpdateIntervals == {1, 2}

\* Python's None, for fields that hold a mapping or a document
None == [none |-> TRUE]
\* Python's None, for fields that hold a timestamp
NoTime == -1

VARIABLES
    now,                      \* time.time()
    request_history,          \* SessionManager.request_history
    max_requests_per_second,  \* SessionManager.max_requests_per_second
    max_per,                  \* SessionManager.max_per
    last_request,             \* ScraperMixin.last_request, per extractor
    page_content,             \* ScraperMixin.page_content, per extractor
    last_updated,             \* ScraperMixin.last_updated, per extractor
    update_interval,          \* ScraperMixin.update_interval, per extractor
    pc,                       \* per thread: the statement it is at
    frame,                    \* per thread: self, params and locals of the call
    ret,                      \* per thread: value returned by its last call
    entry,                    \* history: the cache of `self` when the call began
    call,                     \* history: what the call has done so far
    fetched,                  \* history: per extractor, has it ever issued a GET
    nAdmit, nGet, nRecord,    \* history: admit() returns, GETs, record() calls
    firstRecorded,            \* history: the first timestamp ever recorded
    site,                     \* the markup the remote site serves at present
    method,                   \* per thread: the extractor method it executes
    result,                   \* per thread: what that method returned or raised
    prev,                     \* history: the method call completed before
    time_str,                 \* the text handed to convert_time
    converted                 \* what convert_time returned or raised

governor == <<request_history, max_requests_per_second, max_per>>
cache == <<last_request, page_content, last_updated, update_interval>>
counters == <<fetched, nAdmit, nGet, nRecord, firstRecorded>>
extraction == <<site, method, result, prev>>
conversion == <<time_str, converted>>
vars == <<now, governor, cache, pc, frame, ret, entry, call, counters,
          extraction, conversion>>

\* --------------------------------------------------------------- helpers
NoFrame == [self |-> "athlete", params |-> None, current_time |-> 0,
            time_to_wait |-> 0, page |-> "none"]
NoEntry == [now |-> 0, last_request |-> None, page_content |-> None,
            last_updated |-> NoTime, fetched |-> FALSE,
            request_history |-> <<>>]
NoCall == [done |-> FALSE, admitted |-> 0, slept |-> FALSE, sent |-> <<>>,
           recorded |-> 0, outcome |-> "none"]

\* The markup of a page, as far as the extractors look at it: the containers
\* (tables, select menus) a method searches for, in document order, and the
\* state of their data rows: "ok", or "nocell" (a row lacks a cell or link the
\* method reads, an option lacks its value attribute).
RowKinds == {"ok", "nocell"}
NoTables == [tables |-> <<>>, rows |-> "ok"]
Shapes == {NoTables, [tables |-> <<"heats">>, rows |-> "ok"]}
          \cup [tables : {<<"heats", "final">>}, rows : RowKinds]
\* the page served while only the cache and the governor are looked at
PlainPage == [tables |-> <<"heats">>, rows |-> "ok"]

\* convert_time has not been called
NoConversion == [kind |-> "none", seconds |-> 0, microsecond |-> 0,
                 error |-> "none"]
NoMethod == [self |-> "none", name |-> "none", args |-> <<>>]
NoResult == [kind |-> "none", records |-> <<>>, error |-> "none"]
NoPrev == [method |-> NoMethod, result |-> NoResult, soup |-> None,
           requests |-> 0]

\* the parsed response of a GET with mapping p, parsed at time at; a response
\* without a body element holds no table
Document(p, at, body) ==
    [key |-> p, at |-> at, body |-> body,
     shape |-> IF body THEN site ELSE NoTables]

\* ------------------------------------------------------------------ Init
\* SessionManager.__init__ and ScraperMixin.__init__ of every extractor
Init ==
    /\ now = 0
    /\ request_history = <<>>
    /\ \E cfg \in RateConfigs :
          /\ max_requests_per_second = cfg[1]
          /\ max_per = cfg[2]
    /\ last_request = [e \in Extractors |-> None]
    /\ page_content = [e \in Extractors |-> None]
    /\ last_updated = [e \in Extractors |-> NoTime]
    /\ \E u \in UpdateIntervals : update_interval = [e \in Extractors |-> u]
    /\ pc = [t \in Threads |-> "idle"]
    /\ frame = [t \in Threads |-> NoFrame]
    /\ ret = [t \in Threads |-> None]
    /\ entry = [t \in Threads |-> NoEntry]
    /\ call = [t \in Threads |-> NoCall]
    /\ fetched = [e \in Extractors |-> FALSE]
    /\ nAdmit = 0 /\ nGet = 0 /\ nRecord = 0
    /\ firstRecorded = NoTime
    /\ site = PlainPage
    /\ method = [t \in Threads |-> NoMethod]
    /\ result = [t \in Threads |-> NoResult]
    /\ prev = [t \in Threads |-> NoPrev]
    /\ time_str = <<>>
    /\ converted = NoConversion

\* ------------------------------------------------------ SessionManager
\* variant: a timestamp on the edge of the window counts as inside
NewerThanOrEqual(history, bound) == SelectSeq(history, LAMBDA ts : ts >= bound)

\* [t for t in self.request_history if t > bound]
NewerThan(history, bound) == SelectSeq(history, LAMBDA ts : ts > bound)

\* variant: the limit test is strict (> instead of >=)
RateLimitReachedStrict(valid_requests) ==
    Len(valid_requests) > max_requests_per_second

\* if len(valid_requests) >= self.max_requests_per_second
RateLimitReached(valid_requests) ==
    Len(valid_requests) >= max_requests_per_second

\* variant: the wait is one second short
TimeToWaitShort(valid_requests, current_time) ==
    valid_requests[1] + max_per - current_time - 1

\* time_to_wait = valid_requests[0] + self.max_per - current_time
TimeToWait(valid_requests, current_time) ==
    valid_requests[1] + max_per - current_time

\* variant: a call that does not sleep drops the expired timestamps
CheckRequestRateLimitPruning(t) ==
    /\ pc[t] = "check_rate"
    /\ LET current_time == now
           window_start_time == current_time - max_per
           valid_requests == NewerThan(request_history, window_start_time)
       IN IF RateLimitReached(valid_requests)
          THEN /\ frame' = [frame EXCEPT ![t].current_time = current_time,
                                         ![t].time_to_wait =
                                    TimeToWait(valid_requests, current_time)]
               /\ pc' = [pc EXCEPT ![t] = "sleep"]
               /\ UNCHANGED <<call, nAdmit, request_history>>
          ELSE /\ pc' = [pc EXCEPT ![t] = "http_get"]
               /\ call' = [call EXCEPT ![t].admitted = @ + 1]
               /\ nAdmit' = nAdmit + 1
               /\ request_history' = valid_requests
               /\ UNCHANGED frame
    /\ UNCHANGED <<now, max_requests_per_second, max_per, cache, ret, entry,
                   fetched, nGet, nRecord, firstRecorded>>
    /\ UNCHANGED <<extraction, conversion>>

\* check_request_rate_limit up to the decision to sleep
CheckRequestRateLimit(t) ==
    /\ pc[t] = "check_rate"
    /\ LET current_time == now
           window_start_time == current_time - max_per
           valid_requests == NewerThan(request_history, window_start_time)
       IN IF RateLimitReached(valid_requests)
          THEN /\ frame' = [frame EXCEPT ![t].current_time = current_time,
                                         ![t].time_to_wait =
                                    TimeToWait(valid_requests, current_time)]
               /\ pc' = [pc EXCEPT ![t] = "sleep"]
               /\ UNCHANGED <<call, nAdmit>>
          ELSE /\ pc' = [pc EXCEPT ![t] = "http_get"]
               /\ call' = [call EXCEPT ![t].admitted = @ + 1]
               /\ nAdmit' = nAdmit + 1
               /\ UNCHANGED frame
    /\ UNCHANGED <<now, governor, cache, ret, entry, fetched, nGet, nRecord,
                   firstRecorded>>
    /\ UNCHANGED <<extraction, conversion>>

\* time.sleep(time_to_wait) returns, then the history is pruned
Sleep(t) ==
    /\ pc[t] = "sleep"
    /\ now >= frame[t].current_time + frame[t].time_to_wait
    /\ LET window_start_time == frame[t].current_time - max_per
       IN request_history' = NewerThan(request_history,
                                window_start_time + frame[t].time_to_wait)
    /\ pc' = [pc EXCEPT ![t] = "http_get"]
    /\ call' = [call EXCEPT ![t].admitted = @ + 1, ![t].slept = TRUE]
    /\ nAdmit' = nAdmit + 1
    /\ UNCHANGED <<now, max_requests_per_second, max_per, cache, frame, ret,
                   entry, fetched, nGet, nRecord, firstRecorded>>
    /\ UNCHANGED <<extraction, conversion>>

\* add_request
AddRequest(t) ==
    /\ pc[t] = "add_request"
    /\ LET request_time == now
       IN /\ request_history' = Append(request_history, request_time)
          /\ firstRecorded' = IF firstRecorded = NoTime THEN request_time
                              ELSE firstRecorded
    /\ nRecord' = nRecord + 1
    /\ call' = [call EXCEPT ![t].recorded = @ + 1]
    \* body found, or RequestException("Empty response") raised and caught:
    \* _update_page_content returns either way
    /\ pc' = [pc EXCEPT ![t] = "set_last"]
    /\ UNCHANGED <<now, max_requests_per_second, max_per, cache, frame, ret,
                   entry, fetched, nAdmit, nGet>>
    /\ UNCHANGED <<extraction, conversion>>

\* -------------------------------------------------------- ScraperMixin
\* variant: a copy exactly update_interval old counts as stale (>= for >)
NeedsUpdateEarly(e, params) ==
    \/ last_updated[e] = NoTime
    \/ params # last_request[e]
    \/ now - last_updated[e] >= update_interval[e]

\* variant: the age of the cached copy is not looked at
NeedsUpdateNoAge(e, params) ==
    \/ last_updated[e] = NoTime
    \/ params # last_request[e]

\* variant: every call refreshes
NeedsUpdateAlways(e, params) == TRUE

\* the condition of _get_page_content
NeedsUpdate(e, params) ==
    \/ last_updated[e] = NoTime
    \/ params # last_request[e]
    \/ now - last_updated[e] > update_interval[e]

\* variant: _update_page_content does not consult the rate limit
FirstStatementNoAdmit(e, params) ==
    IF NeedsUpdate(e, params) THEN "http_get" ELSE "set_last"

\* the first statement a call of _get_page_content goes to
FirstStatement(e, params) ==
    IF NeedsUpdate(e, params) THEN "check_rate" ELSE "set_last"

\* _get_page_content(params) is called on extractor e
GetPageContent(t, e, params) ==
    /\ pc[t] = "idle"
    /\ nAdmit < MaxFetches
    /\ frame' = [frame EXCEPT ![t] = [NoFrame EXCEPT !.self = e,
                                                     !.params = params]]
    /\ entry' = [entry EXCEPT ![t] = [now |-> now,
                                      last_request |-> last_request[e],
                                      page_content |-> page_content[e],
                                      last_updated |-> last_updated[e],
                                      fetched |-> fetched[e],
                                      request_history |-> request_history]]
    /\ pc' = [pc EXCEPT ![t] = FirstStatement(e, params)]
    /\ UNCHANGED <<now, governor, cache, ret, call, counters>>
    /\ UNCHANGED <<extraction, conversion>>

\* variant: a failed GET is recorded in the history
AfterResponseRecords(outcome) ==
    IF outcome \in {"transport", "httperr"} THEN "add_request" ELSE "store"

\* variant: a failed GET is sent again
AfterResponseRetry(outcome) ==
    IF outcome \in {"transport", "httperr"} THEN "check_rate" ELSE "store"

\* where the response of the GET takes _update_page_content
AfterResponse(outcome) ==
    IF outcome \in {"transport", "httperr"} THEN "set_last" ELSE "store"

\* self.sessionManager.get_session().get(BASE_URL, params=params) and
\* page.raise_for_status()
HttpGet(t, outcome) ==
    /\ pc[t] = "http_get"
    /\ frame' = [frame EXCEPT ![t].page = outcome]
    /\ call' = [call EXCEPT ![t].sent = Append(@, frame[t].params),
                            ![t].outcome = outcome]
    /\ nGet' = nGet + 1
    /\ fetched' = [fetched EXCEPT ![frame[t].self] = TRUE]
    /\ pc' = [pc EXCEPT ![t] = AfterResponse(outcome)]
    /\ UNCHANGED <<now, governor, cache, ret, entry, nAdmit, nRecord,
                   firstRecorded>>
    /\ UNCHANGED <<extraction, conversion>>

\* variant: the cached page is an attribute shared by all extractors
StorePageShared(t) ==
    /\ pc[t] = "store"
    /\ page_content' = [e \in DOMAIN page_content |->
            Document(frame[t].params, now, frame[t].page = "ok")]
    /\ last_updated' = [e \in DOMAIN last_updated |-> now]
    /\ pc' = [pc EXCEPT ![t] = "add_request"]
    /\ UNCHANGED <<now, governor, last_request, update_interval, frame, ret,
                   entry, call, counters>>
    /\ UNCHANGED <<extraction, conversion>>

\* self.page_content = BeautifulSoup(page.content, "lxml")
\* self.last_updated = time.time()
StorePage(t) ==
    /\ pc[t] = "store"
    /\ LET self == frame[t].self
       IN /\ page_content' = [page_content EXCEPT ![self] =
                Document(frame[t].params, now, frame[t].page = "ok")]
          /\ last_updated' = [last_updated EXCEPT ![self] = now]
    /\ pc' = [pc EXCEPT ![t] = "add_request"]
    /\ UNCHANGED <<now, governor, last_request, update_interval, frame, ret,
                   entry, call, counters>>
    /\ UNCHANGED <<extraction, conversion>>

\* self.last_request = params
SetLastRequest(t) ==
    /\ pc[t] = "set_last"
    /\ last_request' = [last_request EXCEPT ![frame[t].self] = frame[t].params]
    /\ pc' = [pc EXCEPT ![t] = "return"]
    /\ UNCHANGED <<now, governor, page_content, last_updated, update_interval,
                   frame, ret, entry, call, counters>>
    /\ UNCHANGED <<extraction, conversion>>

\* return self.page_content
Return(t) ==
    /\ pc[t] = "return"
    /\ ret' = [ret EXCEPT ![t] = page_content[frame[t].self]]
    /\ call' = [call EXCEPT ![t].done = TRUE]
    /\ pc' = [pc EXCEPT ![t] = "returned"]
    /\ UNCHANGED <<now, governor, cache, frame, entry, counters>>
    /\ UNCHANGED <<extraction, conversion>>

\* the caller has taken the returned value and is ready for its next call
Resume(t) ==
    /\ pc[t] = "returned"
    /\ pc' = [pc EXCEPT ![t] = "idle"]
    /\ frame' = [frame EXCEPT ![t] = NoFrame]
    /\ entry' = [entry EXCEPT ![t] = NoEntry]
    /\ call' = [call EXCEPT ![t] = NoCall]
    /\ ret' = [ret EXCEPT ![t] = None]
    /\ UNCHANGED <<now, governor, cache, counters>>
    /\ UNCHANGED <<extraction, conversion>>

\* time passes
Tick ==
    /\ now < MaxTime
    /\ now' = now + 1
    /\ UNCHANGED <<governor, cache, pc, frame, ret, entry, call, counters>>
    /\ UNCHANGED <<extraction, conversion>>

\* one statement of a call by thread t
Statement(t) ==
    \/ \E e \in Extractors, params \in Params : GetPageContent(t, e, params)
    \/ CheckRequestRateLimit(t)
    \/ Sleep(t)
    \/ \E outcome \in Outcomes : HttpGet(t, outcome)
    \/ StorePage(t)
    \/ AddRequest(t)
    \/ SetLastRequest(t)
    \/ Return(t)

\* sequential callers: one thread, call after call
Next == Tick \/ \E t \in SeqThreads : (Statement(t) \/ Resume(t))
Spec == Init /\ [][Next]_vars

\* concurrent callers: every thread makes one call, the calls overlap
ConcNext == Tick \/ \E t \in Threads : Statement(t)
ConcSpec == Init /\ [][ConcNext]_vars

\* ------------------------------------------------------------ extractors
\* one instance of each extractor class, as the facade creates them
Instances == {"athlete", "meet", "result", "meets", "club"}

\* Python's None passed as an argument value
NoneArg == "None"

\* the calls of the public methods of instance e, with their arguments
MethodCalls(e) ==
    CASE e = "athlete" ->
           {[self |-> e, name |-> "Athlete.list_personal_bests", args |-> <<"">>],
            [self |-> e, name |-> "Athlete.list_meets", args |-> <<>>]}
      [] e = "meet" ->
           {[self |-> e, name |-> "Meet.list_clubs", args |-> <<>>],
            [self |-> e, name |-> "Meet.list_events", args |-> <<>>],
            [self |-> e, name |-> "Meet.list_races", args |-> <<"17", 1>>]}
           \cup {[self |-> e, name |-> "Meet.list_results",
                  args |-> <<"17", 1, race_id>>] : race_id \in 1..2}
      [] e = "result" ->
           {[self |-> e, name |-> "Result.get_time", args |-> <<>>]}
      [] e = "meets" ->
           {[self |-> e, name |-> "Meets.list_time_periods", args |-> <<>>],
            [self |-> e, name |-> "Meets.list_nations", args |-> <<>>],
            [self |-> e, name |-> "Meets.list_meets",
             args |-> <<NoneArg, "RECENT">>],
            [self |-> e, name |-> "Meets.list_meets",
             args |-> <<"0", "RECENT">>]}
      [] e = "club" ->
           {[self |-> e, name |-> "Club.list_athletes", args |-> <<gender>>] :
                gender \in -1..3}

\* variant: negative indices are rejected
PyInRangeNonNegative(seq, i) == 0 <= i /\ i < Len(seq)

\* Python's seq[i]: is i a valid index, and the item it selects
PyInRange(seq, i) == -Len(seq) <= i /\ i < Len(seq)
PyItem(seq, i) == IF i >= 0 THEN seq[i + 1] ELSE seq[Len(seq) + i + 1]

\* ['CURRENT', 'ALL_MEN', 'All_WOMEN']
AthleteGenders == <<"CURRENT", "ALL_MEN", "All_WOMEN">>

\* does the method raise before it calls _get_page_content
RaisesBeforeFetch(m) ==
    m.name = "Club.list_athletes" /\ ~PyInRange(AthleteGenders, m.args[1])

\* params = {...} of each method
MethodParams(m) ==
    CASE m.name = "Athlete.list_personal_bests" ->
           [page |-> "athleteDetail", athleteId |-> m.self, pbest |-> m.args[1]]
      [] m.name = "Athlete.list_meets" ->
           [page |-> "athleteDetail", athleteId |-> m.self,
            athletePage |-> "MEET"]
      [] m.name \in {"Meet.list_clubs", "Meet.list_events"} ->
           [page |-> "meetDetail", meetId |-> m.self]
      [] m.name \in {"Meet.list_races", "Meet.list_results"} ->
           [page |-> "meetDetail", meetId |-> m.self, gender |-> m.args[2],
            styleId |-> m.args[1]]
      [] m.name = "Result.get_time" ->
           [page |-> "resultDetail", id |-> m.self]
      [] m.name \in {"Meets.list_time_periods", "Meets.list_nations"} ->
           [page |-> "meetSelect", nationId |-> "0", selectPage |-> "RECENT"]
      [] m.name = "Meets.list_meets" ->
           [page |-> "meetSelect", nationId |-> m.args[1],
            selectPage |-> m.args[2]]
      [] m.name = "Club.list_athletes" ->
           [page |-> "rankingDetail", clubId |-> m.self, stroke |-> "9",
            athleteGender |-> PyItem(AthleteGenders, m.args[1])]

\* what a method hands back
ListResult(records) == [kind |-> "list", records |-> records, error |-> "none"]
Raise(error) == [kind |-> "raise", records |-> <<>>, error |-> error]
ReturnNone == [kind |-> "None", records |-> <<>>, error |-> "none"]
ReturnText == [kind |-> "text", records |-> <<>>, error |-> "none"]

\* the containers soup.find / soup.find_all match in a parsed document
Containers(soup) == IF soup.body THEN soup.shape.tables ELSE <<>>

\* methods that soup.find one table and walk its rows outside the try block
FindTableMethods == {"Athlete.list_personal_bests", "Athlete.list_meets",
                     "Meet.list_clubs", "Meet.list_events"}
\* methods that soup.find one select menu and walk its options
FindMenuMethods == {"Meets.list_time_periods", "Meets.list_nations"}
\* methods that soup.find_all tables and loop over them
FindAllMethods == {"Meets.list_meets", "Club.list_athletes"}

\* variant: races are numbered as enumerate counts them
RaceIdZeroBased(id) == id

\* races.append({'race_id': id+1, ...}) for (id, table) in enumerate(tables)
RaceId(id) == id + 1

\* variant: race_id is used as the list index
TableIndexOneBased(race_id) == race_id

\* tables[race_id-1]
TableIndex(race_id) == race_id - 1

\* variant: the AttributeError of a lookup on None reaches the caller
OnNoDocumentRaises(m) == Raise("AttributeError")

\* except AttributeError: return [] (Result.get_time: return None), taken when
\* soup is None
OnNoDocument(m) ==
    IF m.name = "Result.get_time" THEN ReturnNone ELSE ListResult(<<>>)

\* the body of a method after soup = self._get_page_content(params)
Extract(m, soup) ==
    LET tables == Containers(soup)
        rows == soup.shape.rows
    IN CASE soup = None -> OnNoDocument(m)
         [] soup # None /\ m.name = "Result.get_time" ->
              IF tables = <<>> THEN ReturnNone ELSE ReturnText
         [] soup # None /\ m.name \in FindTableMethods ->
              IF tables = <<>> THEN Raise("AttributeError")
              ELSE IF rows # "ok" THEN Raise("AttributeError")
              ELSE ListResult(<<[table |-> tables[1]]>>)
         [] soup # None /\ m.name \in FindMenuMethods ->
              IF tables = <<>> THEN Raise("AttributeError")
              ELSE IF rows # "ok" THEN Raise("KeyError")
              ELSE ListResult(<<[table |-> tables[1]]>>)
         [] soup # None /\ m.name \in FindAllMethods ->
              IF tables = <<>> THEN ListResult(<<>>)
              ELSE IF rows # "ok" THEN Raise("AttributeError")
              ELSE ListResult([i \in 1..Len(tables) |-> [table |-> tables[i]]])
         [] soup # None /\ m.name = "Meet.list_races" ->
              IF tables # <<>> /\ rows # "ok" THEN Raise("AttributeError")
              ELSE ListResult([i \in 1..Len(tables) |->
                        [race_id |-> RaceId(i - 1), race_name |-> tables[i]]])
         [] soup # None /\ m.name = "Meet.list_results" ->
              LET index == TableIndex(m.args[3])
              IN IF ~PyInRange(tables, index) THEN Raise("IndexError")
                 ELSE IF rows # "ok" THEN Raise("AttributeError")
                 ELSE ListResult(<<[table |-> PyItem(tables, index)]>>)

\* the requests a run of extractor methods may issue
MaxMethodFetches == 2

\* a public method of extractor e is called
CallMethod(t, e, m) ==
    /\ pc[t] = "idle"
    /\ method[t] = NoMethod
    /\ nAdmit < MaxMethodFetches
    /\ e \in DOMAIN page_content
    /\ m \in MethodCalls(e)
    /\ method' = [method EXCEPT ![t] = m]
    /\ result' = [result EXCEPT ![t] =
                    IF RaisesBeforeFetch(m) THEN Raise("IndexError") ELSE @]
    /\ UNCHANGED <<now, governor, cache, pc, frame, ret, entry, call,
                   counters, site, prev>>
    /\ UNCHANGED conversion

\* soup = self._get_page_content(params)
MethodGetPage(t) ==
    /\ method[t] # NoMethod
    /\ result[t] = NoResult
    /\ GetPageContent(t, method[t].self, MethodParams(method[t]))

\* the method walks the document it was handed
ExtractRecords(t) ==
    /\ pc[t] = "returned"
    /\ method[t] # NoMethod
    /\ result[t] = NoResult
    /\ result' = [result EXCEPT ![t] = Extract(method[t], ret[t])]
    /\ UNCHANGED <<now, governor, cache, pc, frame, ret, entry, call,
                   counters, site, method, prev>>
    /\ UNCHANGED conversion

\* the method has returned or raised; its caller goes on
FinishMethod(t) ==
    /\ method[t] # NoMethod
    /\ result[t] # NoResult
    /\ prev' = [prev EXCEPT ![t] = [method |-> method[t],
                                    result |-> result[t],
                                    soup |-> ret[t],
                                    requests |-> Len(call[t].sent)]]
    /\ method' = [method EXCEPT ![t] = NoMethod]
    /\ result' = [result EXCEPT ![t] = NoResult]
    /\ UNCHANGED <<now, governor, cache, pc, frame, ret, entry, call,
                   counters, site>>
    /\ UNCHANGED conversion

\* the frame of the finished _get_page_content call is dropped
MethodResume(t) ==
    /\ method[t] = NoMethod
    /\ Resume(t)

\* the remote site serves different markup to the request about to be sent;
\* the markup is read only when a response is parsed, so a change at any other
\* moment shows as a change here
SiteChanges(shape) ==
    /\ shape # site
    /\ \E t \in Threads : pc[t] = "http_get"
    /\ site' = shape
    /\ UNCHANGED <<now, governor, cache, pc, frame, ret, entry, call,
                   counters, method, result, prev>>
    /\ UNCHANGED conversion

\* the responses the extractor runs are answered with; a response without a
\* body element is to the extractors a page without tables
MethodOutcomes == {"ok", "httperr"}

\* the facade has created extractor e; (1, 1) rate limit, update_interval 1
MethodInit ==
    /\ now = 0
    /\ request_history = <<>>
    /\ max_requests_per_second = 1
    /\ max_per = 1
    /\ \E e \in Instances :
          /\ last_request = [x \in {e} |-> None]
          /\ page_content = [x \in {e} |-> None]
          /\ last_updated = [x \in {e} |-> NoTime]
          /\ update_interval = [x \in {e} |-> 1]
          /\ fetched = [x \in {e} |-> FALSE]
    /\ pc = [t \in Threads |-> "idle"]
    /\ frame = [t \in Threads |-> NoFrame]
    /\ ret = [t \in Threads |-> None]
    /\ entry = [t \in Threads |-> NoEntry]
    /\ call = [t \in Threads |-> NoCall]
    /\ nAdmit = 0 /\ nGet = 0 /\ nRecord = 0
    /\ firstRecorded = NoTime
    /\ site = PlainPage
    /\ method = [t \in Threads |-> NoMethod]
    /\ result = [t \in Threads |-> NoResult]
    /\ prev = [t \in Threads |-> NoPrev]
    /\ time_str = <<>>
    /\ converted = NoConversion

\* one step of an extractor method run by thread t
MethodStep(t) ==
    \/ \E e \in Instances, m \in UNION {MethodCalls(x) : x \in Instances} :
          CallMethod(t, e, m)
    \/ MethodGetPage(t)
    \/ CheckRequestRateLimit(t)
    \/ Sleep(t)
    \/ \E outcome \in MethodOutcomes : HttpGet(t, outcome)
    \/ StorePage(t)
    \/ AddRequest(t)
    \/ SetLastRequest(t)
    \/ Return(t)
    \/ ExtractRecords(t)
    \/ FinishMethod(t)
    \/ MethodResume(t)

\* sequential calls of the methods of one extractor
MethodNext ==
    \/ Tick
    \/ \E shape \in Shapes : SiteChanges(shape)
    \/ \E t \in SeqThreads : MethodStep(t)
MethodSpec == MethodInit /\ [][MethodNext]_vars

\* --------------------------------------------- SessionManager used directly
\* rate configurations of a SessionManager built by its user
GovConfigs == {<<0, 1>>, <<1, 1>>, <<2, 2>>}
\* the add_request calls of a run
MaxRecords == 3

\* SessionManager.__init__(max_requests_per_timeframe)
GovInit ==
    /\ now = 0
    /\ request_history = <<>>
    /\ \E cfg \in GovConfigs :
          /\ max_requests_per_second = cfg[1]
          /\ max_per = cfg[2]
    /\ last_request = [e \in Extractors |-> None]
    /\ page_content = [e \in Extractors |-> None]
    /\ last_updated = [e \in Extractors |-> NoTime]
    /\ update_interval = [e \in Extractors |-> 1]
    /\ pc = [t \in Threads |-> "idle"]
    /\ frame = [t \in Threads |-> NoFrame]
    /\ ret = [t \in Threads |-> None]
    /\ entry = [t \in Threads |-> NoEntry]
    /\ call = [t \in Threads |-> NoCall]
    /\ fetched = [e \in Extractors |-> FALSE]
    /\ nAdmit = 0 /\ nGet = 0 /\ nRecord = 0
    /\ firstRecorded = NoTime
    /\ site = PlainPage
    /\ method = [t \in Threads |-> NoMethod]
    /\ result = [t \in Threads |-> NoResult]
    /\ prev = [t \in Threads |-> NoPrev]
    /\ time_str = <<>>
    /\ converted = NoConversion

\* manager.check_request_rate_limit() is called
Admit(t) ==
    /\ pc[t] = "idle"
    /\ nAdmit < MaxFetches
    /\ pc' = [pc EXCEPT ![t] = "check_rate"]
    /\ entry' = [entry EXCEPT ![t] = [NoEntry EXCEPT
                                        !.now = now,
                                        !.request_history = request_history]]
    /\ UNCHANGED <<now, governor, cache, frame, ret, call, counters>>
    /\ UNCHANGED <<extraction, conversion>>

\* valid_requests[0] is evaluated on an empty list
NoValidRequest ==
    LET valid_requests == NewerThan(request_history, now - max_per)
    IN RateLimitReached(valid_requests) /\ valid_requests = <<>>

\* check_request_rate_limit up to the decision to sleep, valid_requests[0]
\* being there when it is read
AdmitCheck(t) ==
    /\ ~NoValidRequest
    /\ CheckRequestRateLimit(t)

\* time_to_wait = valid_requests[0] + ... raises IndexError
AdmitRaises(t) ==
    /\ pc[t] = "check_rate"
    /\ NoValidRequest
    /\ pc' = [pc EXCEPT ![t] = "raised"]
    /\ UNCHANGED <<now, governor, cache, frame, ret, entry, call, counters>>
    /\ UNCHANGED <<extraction, conversion>>

\* check_request_rate_limit has returned or raised; its caller goes on
AdmitDone(t) ==
    /\ pc[t] \in {"http_get", "raised"}
    /\ pc' = [pc EXCEPT ![t] = "idle"]
    /\ frame' = [frame EXCEPT ![t] = NoFrame]
    /\ entry' = [entry EXCEPT ![t] = NoEntry]
    /\ call' = [call EXCEPT ![t] = NoCall]
    /\ UNCHANGED <<now, governor, cache, ret, counters>>
    /\ UNCHANGED <<extraction, conversion>>

\* manager.add_request() is called
Record(t) ==
    /\ pc[t] = "idle"
    /\ nRecord < MaxRecords
    /\ LET request_time == now
       IN /\ request_history' = Append(request_history, request_time)
          /\ firstRecorded' = IF firstRecorded = NoTime THEN request_time
                              ELSE firstRecorded
    /\ nRecord' = nRecord + 1
    /\ UNCHANGED <<now, max_requests_per_second, max_per, cache, pc, frame,
                   ret, entry, call, fetched, nAdmit, nGet>>
    /\ UNCHANGED <<extraction, conversion>>

\* any sequence of calls of the two public methods
GovNext ==
    \/ Tick
    \/ \E t \in SeqThreads :
          \/ Admit(t)
          \/ AdmitCheck(t)
          \/ AdmitRaises(t)
          \/ Sleep(t)
          \/ AdmitDone(t)
          \/ Record(t)
GovSpec == GovInit /\ [][GovNext]_vars

\* ------------------------------------------ the method bodies on their own
\* race_id arguments of Meet.list_results, valid and not
RaceIds == -2..3

\* the method calls that reach soup = self._get_page_content(params)
ExtractCalls ==
    {m \in UNION {MethodCalls(e) : e \in Instances} : ~RaisesBeforeFetch(m)}
    \cup {[self |-> "meet", name |-> "Meet.list_results",
           args |-> <<"17", 1, race_id>>] : race_id \in RaceIds}

\* method m of a new extractor has just been handed the page its request was
\* answered with at time 0
HandedPage(m, shape) ==
    LET e == m.self
        params == MethodParams(m)
        soup == [key |-> params, at |-> 0, body |-> TRUE, shape |-> shape]
    IN /\ now = 0
       /\ request_history = <<0>>
       /\ max_requests_per_second = 1
       /\ max_per = 1
       /\ last_request = [x \in {e} |-> params]
       /\ page_content = [x \in {e} |-> soup]
       /\ last_updated = [x \in {e} |-> 0]
       /\ update_interval = [x \in {e} |-> 1]
       /\ fetched = [x \in {e} |-> TRUE]
       /\ pc = [t \in Threads |-> IF t \in SeqThreads THEN "returned"
                                 ELSE "idle"]
       /\ frame = [t \in Threads |->
                     IF t \in SeqThreads
                     THEN [NoFrame EXCEPT !.self = e, !.params = params,
                                          !.page = "ok"]
                     ELSE NoFrame]
       /\ ret = [t \in Threads |-> IF t \in SeqThreads THEN soup ELSE None]
       /\ entry = [t \in Threads |-> NoEntry]
       /\ call = [t \in Threads |->
                    IF t \in SeqThreads
                    THEN [NoCall EXCEPT !.done = TRUE, !.admitted = 1,
                                        !.sent = <<params>>,
                                        !.recorded = 1, !.outcome = "ok"]
                    ELSE NoCall]
       /\ nAdmit = 1 /\ nGet = 1 /\ nRecord = 1
       /\ firstRecorded = 0
       /\ site = shape
       /\ method = [t \in Threads |-> IF t \in SeqThreads THEN m
                                     ELSE NoMethod]
       /\ result = [t \in Threads |-> NoResult]
       /\ prev = [t \in Threads |-> NoPrev]

\* any method on any page
ExtractInit ==
    /\ \E m \in ExtractCalls, shape \in Shapes : HandedPage(m, shape)
    /\ time_str = <<>>
    /\ converted = NoConversion

\* the method walks the page and returns or raises
ExtractNext == \E t \in SeqThreads : ExtractRecords(t) \/ FinishMethod(t)
ExtractSpec == ExtractInit /\ [][ExtractNext]_vars

\* ------------------------------------------------------------ convert_time
\* A string is a tuple of one-character strings.  total_second is a float in
\* the source; here it is the pair (whole seconds, microseconds), which is
\* exact for every value datetime can produce.
MaxLen == 4

Digits == <<"0", "1", "2", "3", "4", "5", "6", "7", "8", "9">>
IsDigit(c) == \E d \in 1..10 : Digits[d] = c
DigitValue(c) == (CHOOSE d \in 1..10 : Digits[d] = c) - 1
RECURSIVE Number(_)
Number(text) ==
    IF text = <<>> THEN 0
    ELSE Number(SubSeq(text, 1, Len(text) - 1)) * 10
         + DigitValue(text[Len(text)])
Pow10(n) == CASE n = 0 -> 1 [] n = 1 -> 10 [] n = 2 -> 100 [] n = 3 -> 1000
              [] n = 4 -> 10000 [] n = 5 -> 100000 [] n = 6 -> 1000000

Value(seconds, microsecond) ==
    [kind |-> "value", seconds |-> seconds, microsecond |-> microsecond,
     error |-> "none"]
RaiseConversion(error) ==
    [kind |-> "raise", seconds |-> 0, microsecond |-> 0, error |-> error]

\* the marker is left in the string
StripMarkerNever(s) == s
\* if time_str[-1] == 'M': time_str = time_str[:-1]   (s is not empty)
StripMarker(s) ==
    IF s[Len(s)] = "M" THEN SubSeq(s, 1, Len(s) - 1) ELSE s

\* time_str.count(':')
ColCount(s) == Cardinality({i \in 1..Len(s) : s[i] = ":"})

\* '%H:%M:%S.%f', '%M:%S.%f' or '%S.%f', one directive or literal per item
TimeFormat(col_count) ==
    IF col_count = 2 THEN <<"H", ":", "M", ":", "S", ".", "f">>
    ELSE IF col_count = 1 THEN <<"M", ":", "S", ".", "f">>
    ELSE <<"S", ".", "f">>

\* the largest number the pattern of a directive accepts: %H is
\* 2[0-3]|[0-1]\d|\d, %M is [0-5]\d|\d, %S is 6[0-1]|[0-5]\d|\d
DirectiveMax(d) == CASE d = "H" -> 23 [] d = "M" -> 59 [] d = "S" -> 61

NoMatch == [ok |-> FALSE, end |-> 0, H |-> 0, M |-> 0, S |-> 0, f |-> 0]
Matched(end) == [ok |-> TRUE, end |-> end, H |-> 0, M |-> 0, S |-> 0, f |-> 0]

DigitsAt(s, i, n) ==
    /\ i + n - 1 <= Len(s)
    /\ \A k \in i..(i + n - 1) : IsDigit(s[k])

\* the match of items k.. of the format against s from position i, as the
\* regular expression strptime compiles finds it: two digits before one for
\* %H %M %S, as many digits as there are (up to six) for %f, which ends the
\* format
RECURSIVE Match(_, _, _, _)
Match(fmt, k, s, i) ==
    IF k > Len(fmt) THEN Matched(i)
    ELSE LET d == fmt[k]
             Field(n) ==
                 IF DigitsAt(s, i, n)
                    /\ Number(SubSeq(s, i, i + n - 1)) <= DirectiveMax(d)
                 THEN LET rest == Match(fmt, k + 1, s, i + n)
                      IN IF rest.ok
                         THEN [rest EXCEPT ![d] =
                                   Number(SubSeq(s, i, i + n - 1))]
                         ELSE NoMatch
                 ELSE NoMatch
         IN IF d \in {":", "."}
            THEN IF i <= Len(s) /\ s[i] = d
                 THEN Match(fmt, k + 1, s, i + 1) ELSE NoMatch
            ELSE IF d = "f"
            THEN LET run == {n \in 1..6 : DigitsAt(s, i, n)}
                 IN IF run = {} THEN NoMatch
                    ELSE LET n == CHOOSE x \in run : \A y \in run : y <= x
                         IN [Matched(i + n) EXCEPT !.f =
                                Number(SubSeq(s, i, i + n - 1))
                                * Pow10(6 - n)]
            ELSE IF Field(2).ok THEN Field(2) ELSE Field(1)

\* datetime.strptime(time_str, time_format).time(): ValueError when the
\* string does not match, when data remains after the match, and when the
\* second is 60 or 61 (the pattern accepts it, datetime does not)
Strptime(s, fmt) ==
    LET m == Match(fmt, 1, s, 1)
    IN IF ~m.ok \/ m.end # Len(s) + 1 \/ m.S > 59
       THEN RaiseConversion("ValueError")
       ELSE [hour |-> m.H, minute |-> m.M, second |-> m.S,
             microsecond |-> m.f, kind |-> "time"]

\* time_str[-1] of an empty string is an IndexError
convert_time(s) ==
    IF s = <<>> THEN RaiseConversion("IndexError")
    ELSE LET stripped == StripMarker(s)
             time == Strptime(stripped, TimeFormat(ColCount(stripped)))
         IN IF time.kind = "raise" THEN time
            ELSE Value(time.second + time.minute * 60 + time.hour * 3600,
                       time.microsecond)

\* the texts a time cell can hold: durations written field by field, with
\* and without the marker, and every string of at most MaxLen characters
\* over a small alphabet
HourTexts == {<<"1">>, <<"2", "3">>, <<"2", "4">>}
MinuteTexts == {<<"0", "2">>, <<"5">>, <<"5", "9">>, <<"6", "0">>}
SecondTexts == {<<"0", "3">>, <<"2", "8">>, <<"7">>, <<"5", "9">>,
                <<"6", "0">>, <<"7", "5">>}
FractionTexts == {<<"4">>, <<"4", "4">>, <<"4", "5">>,
                  <<"9", "9", "9", "9", "9", "9">>,
                  <<"1", "2", "3", "4", "5", "6", "7">>}
SecondsOnly == {sec \o <<".">> \o f : sec \in SecondTexts, f \in FractionTexts}
WithMinutes == {m \o <<":">> \o rest : m \in MinuteTexts, rest \in SecondsOnly}
WithHours == {h \o <<":">> \o rest : h \in HourTexts, rest \in WithMinutes}
Durations == SecondsOnly \cup WithMinutes \cup WithHours
Alphabet == {"1", ":", ".", "M", "x"}
ShortTexts == UNION {[1..n -> Alphabet] : n \in 0..MaxLen}
TimeTexts ==
    Durations \cup {Append(s, "M") : s \in Durations} \cup ShortTexts

PersonalBests ==
    [self |-> "athlete", name |-> "Athlete.list_personal_bests",
     args |-> <<"">>]

\* list_personal_bests has been handed a page whose one row holds time_str
ConvertInit ==
    /\ HandedPage(PersonalBests, PlainPage)
    /\ time_str \in TimeTexts
    /\ converted = NoConversion

\* time = convert_time(time_cell.get_text(strip=True))
ConvertTime(t) ==
    /\ pc[t] = "returned"
    /\ method[t] = PersonalBests
    /\ result[t] = NoResult
    /\ converted = NoConversion
    /\ converted' = convert_time(time_str)
    /\ UNCHANGED <<now, governor, cache, pc, frame, ret, entry, call,
                   counters, extraction, time_str>>

\* the call is outside the try block: what convert_time raises leaves
\* list_personal_bests, what it returns is the 'time' of the row's record
PersonalBestsRow(t) ==
    /\ method[t] = PersonalBests
    /\ result[t] = NoResult
    /\ converted # NoConversion
    /\ result' = [result EXCEPT ![t] =
                    IF converted.kind = "raise" THEN Raise(converted.error)
                    ELSE ListResult(<<[table |-> Containers(ret[t])[1],
                                       time |-> converted]>>)]
    /\ UNCHANGED <<now, governor, cache, pc, frame, ret, entry, call,
                   counters, site, method, prev, conversion>>

ConvertNext ==
    \E t \in SeqThreads :
        ConvertTime(t) \/ PersonalBestsRow(t) \/ FinishMethod(t)
ConvertSpec == ConvertInit /\ [][ConvertNext]_vars

\* ================================================================ claims
Returned(t) == pc[t] = "returned"
Self(t) == frame[t].self
Elapsed(t) == entry[t].now - entry[t].last_updated
\* recorded timestamps inside the trailing window at time `now`
RecordedInWindow == Len(NewerThan(request_history, now - max_per))
\* threads whose request was admitted and is not yet recorded or failed
InFlight == {t \in Threads : pc[t] \in {"http_get", "store", "add_request"}}

\* C1: whenever get(P) returns a document, that document came from a request
\* with mapping equal to P and was fetched at most update_interval before the
\* call.
C1_ReturnedDocumentMatchesAndFresh ==
    \A t \in SeqThreads :
        (Returned(t) /\ ret[t] # None) =>
            /\ ret[t].key = frame[t].params
            /\ entry[t].now - ret[t].at <= update_interval[Self(t)]

\* C2 (as stated): once get(P) fetched successfully at time t, every later
\* get(P) with now - t <= update_interval issues no HTTP request and returns
\* the cached document.
C2_EveryLaterGetIsAHit ==
    \A t \in SeqThreads :
        (/\ Returned(t)
         /\ entry[t].page_content # None
         /\ entry[t].page_content.key = frame[t].params
         /\ entry[t].page_content.body
         /\ entry[t].now - entry[t].page_content.at <= update_interval[Self(t)])
        => /\ call[t].sent = <<>>
           /\ ret[t] = entry[t].page_content

\* the cache of `self` held, when the call began, a copy fetched for the
\* call's mapping, that mapping was the last one used, and the copy was at
\* most update_interval old
HitAtEntry(t) ==
    /\ entry[t].last_request = frame[t].params
    /\ entry[t].page_content # None
    /\ entry[t].page_content.key = frame[t].params
    /\ entry[t].last_updated # NoTime
    /\ Elapsed(t) <= update_interval[Self(t)]

\* C2 (amended): if get(P) fetched successfully at time t and P is still the
\* last-used mapping, a get(P) with now - t <= update_interval (equality
\* included) issues no HTTP request and returns the cached document.
C2_HitIssuesNoRequest ==
    \A t \in SeqThreads :
        (Returned(t) /\ HitAtEntry(t)) =>
            /\ call[t].sent = <<>>
            /\ call[t].admitted = 0
            /\ ret[t] = entry[t].page_content

C2_Witness ==
    \E t \in SeqThreads :
        /\ Returned(t) /\ HitAtEntry(t)
        /\ Elapsed(t) = update_interval[Self(t)]
        /\ ret[t] = entry[t].page_content

\* no prior fetch, or a different mapping, or a copy older than
\* update_interval, when the call began
MissAtEntry(t) ==
    \/ ~entry[t].fetched
    \/ frame[t].params # entry[t].last_request
    \/ entry[t].last_updated # NoTime /\ Elapsed(t) > update_interval[Self(t)]

\* C3: get(P) performs a refresh with P, one new HTTP request, whenever there
\* was no prior fetch, or P differs from the last-used mapping, or more than
\* update_interval has elapsed since the last fetch.
C3_MissIssuesOneRequest ==
    \A t \in SeqThreads :
        (Returned(t) /\ MissAtEntry(t)) => call[t].sent = <<frame[t].params>>

C3_Witness ==
    \E t \in SeqThreads :
        /\ Returned(t)
        /\ entry[t].fetched
        /\ frame[t].params = entry[t].last_request
        /\ entry[t].last_updated # NoTime
        /\ Elapsed(t) > update_interval[Self(t)]
        /\ call[t].sent = <<frame[t].params>>

\* C4: after a refresh that failed with a non-success status or a transport
\* error the cached document is None and get returns None.
C4_FailedRefreshLeavesNone ==
    \A t \in SeqThreads :
        (Returned(t) /\ call[t].outcome \in {"httperr", "transport"}) =>
            /\ page_content[Self(t)] = None
            /\ ret[t] = None

\* C5: for sequential callers sharing one governor, at the instant admit()
\* lets a request proceed, and at every other instant, at most
\* max_requests_per_second recorded timestamps lie in the trailing max_per
\* window, whichever extractors recorded them.
C5_WindowHoldsAtMostMax ==
    /\ RecordedInWindow <= max_requests_per_second
    /\ \A t \in SeqThreads :
          (pc[t] = "http_get" /\ call[t].sent = <<>>) =>
              RecordedInWindow <= max_requests_per_second

C5_Witness ==
    \E t \in SeqThreads :
        /\ pc[t] = "http_get" /\ call[t].slept
        /\ \A e \in Extractors : e = Self(t) \/ fetched[e]
        /\ nRecord > max_requests_per_second

C7_RecordOnlyOnSuccess ==
    \A t \in SeqThreads :
        Returned(t) =>
            call[t].recorded = (IF call[t].outcome = "ok" THEN 1 ELSE 0)

\* C8: with every admitted request recorded, the first
\* max_requests_per_second admit() calls return without sleeping, and the
\* next one returns only when at least max_per has elapsed since the first
\* recorded timestamp; in particular for the configuration (2, 1).
C8_AdmitAfterMaxWaitsForWindow ==
    \A t \in SeqThreads :
        /\ pc[t] = "sleep" => nAdmit >= max_requests_per_second
        /\ (/\ pc[t] = "http_get" /\ call[t].sent = <<>>
            /\ nAdmit = max_requests_per_second + 1
            /\ nRecord = max_requests_per_second)
           => now >= firstRecorded + max_per

C8_Witness ==
    \E t \in SeqThreads :
        /\ max_requests_per_second = 2 /\ max_per = 1
        /\ pc[t] = "http_get" /\ call[t].slept
        /\ nAdmit = 3 /\ nRecord = 2
        /\ now = firstRecorded + 1

\* C9: with threads fetching concurrently through one governor, the requests
\* admitted and not yet recorded, together with the recorded ones inside the
\* trailing window, never number more than max_requests_per_second.
C9_ConcurrentAdmitsWithinLimit ==
    Cardinality(InFlight) + RecordedInWindow <= max_requests_per_second

\* C10: when threads call get concurrently, a caller whose own fetch
\* succeeded receives the document fetched for its own mapping.
C10_CallerReceivesOwnDocument ==
    \A t \in Threads :
        (Returned(t) /\ call[t].outcome = "ok") =>
            /\ ret[t] # None
            /\ ret[t].key = frame[t].params

\* C14: when a response has a success status but the parsed document has no
\* body element, the refresh is a failure: after it the cached document is
\* None, the call returns None and last_updated is not advanced.
C14_BodylessResponseIsAFailure ==
    \A t \in SeqThreads :
        (Returned(t) /\ call[t].outcome = "nobody") =>
            /\ page_content[Self(t)] = None
            /\ ret[t] = None
            /\ last_updated[Self(t)] = entry[t].last_updated

\* C15: a single call of _get_page_content issues at most one HTTP GET,
\* whether the fetch succeeds or fails; a failed fetch is not retried.
C15_AtMostOneGetPerCall ==
    \A t \in SeqThreads : Len(call[t].sent) <= 1
\* a call whose only GET failed has returned
C15_Witness ==
    \E t \in SeqThreads :
        /\ Returned(t)
        /\ call[t].outcome \in {"httperr", "transport"}
        /\ Len(call[t].sent) = 1

\* ------------------------------------------------- claims on the extractors
\* the method of thread t has returned or raised
Finished(t) == method[t] # NoMethod /\ result[t] # NoResult
\* the method of thread t was handed soup by _get_page_content and has
\* returned or raised
Extracted(t) == Finished(t) /\ pc[t] = "returned"
IsListMethod(m) == m.name # "Result.get_time"

\* C11: every extractor list method whose fetch failed, the document being
\* None, returns an empty sequence and does not raise; Result.get_time
\* returns None.
C11_NoDocumentGivesEmpty ==
    \A t \in SeqThreads :
        (Extracted(t) /\ ret[t] = None) =>
            result[t] = IF IsListMethod(method[t]) THEN ListResult(<<>>)
                        ELSE ReturnNone
\* Meet.list_results has returned [] after a GET answered with an HTTP error
C11_Witness ==
    \E t \in SeqThreads :
        /\ Extracted(t)
        /\ ret[t] = None
        /\ call[t].outcome = "httperr"
        /\ method[t].name = "Meet.list_results"
        /\ result[t] = ListResult(<<>>)

\* C12: when the document is present but the container a list method looks
\* for is missing from it, the call returns an empty sequence and raises no
\* exception.
C12_MissingContainerGivesEmpty ==
    \A t \in SeqThreads :
        (/\ Extracted(t)
         /\ IsListMethod(method[t])
         /\ ret[t] # None
         /\ Containers(ret[t]) = <<>>) =>
            result[t] = ListResult(<<>>)

\* C13: when the document and the container are present but a data row lacks
\* a required sub-element, the call returns an empty sequence; no extractor
\* operation raises.
C13_BrokenRowGivesEmpty ==
    \A t \in SeqThreads :
        (/\ Extracted(t)
         /\ ret[t] # None
         /\ Containers(ret[t]) # <<>>
         /\ ret[t].shape.rows = "nocell") =>
            /\ result[t].kind # "raise"
            /\ IsListMethod(method[t]) => result[t] = ListResult(<<>>)

\* C18: for a well-formed page with n result tables Meet.list_races returns
\* exactly n races, the i-th being the i-th table with race_id i; for n = 2
\* the ids are 1 and 2.
C18_RacesNumberedInDocumentOrder ==
    \A t \in SeqThreads :
        (/\ Extracted(t)
         /\ method[t].name = "Meet.list_races"
         /\ ret[t] # None
         /\ ret[t].shape.rows = "ok") =>
            LET tables == Containers(ret[t])
                races == result[t].records
            IN /\ result[t].kind = "list"
               /\ Len(races) = Len(tables)
               /\ \A i \in 1..Len(tables) :
                     /\ races[i].race_id = i
                     /\ races[i].race_name = tables[i]
\* list_races has returned two races, numbered 1 and 2
C18_Witness ==
    \E t \in SeqThreads :
        /\ Extracted(t)
        /\ method[t].name = "Meet.list_races"
        /\ ret[t] # None
        /\ Len(Containers(ret[t])) = 2
        /\ Len(result[t].records) = 2
        /\ result[t].records[1].race_id = 1
        /\ result[t].records[2].race_id = 2

\* the call of thread t began within update_interval of the last fetch
WithinInterval(t) ==
    /\ entry[t].last_updated # NoTime
    /\ Elapsed(t) <= update_interval[Self(t)]
\* the previous method of thread t returned from a document fetched for the
\* mapping p
RanOn(t, p) ==
    /\ prev[t].soup # None
    /\ prev[t].soup.key = p
    /\ prev[t].result.kind # "raise"

\* C16: re-running the same extractor method with the same parameters within
\* the update interval, after a first successful run, issues no new HTTP
\* request, leaves the cached document unchanged and returns records
\* identical to the first run.
C16_RerunIsServedFromCache ==
    \A t \in SeqThreads :
        (/\ Extracted(t)
         /\ prev[t].method = method[t]
         /\ RanOn(t, frame[t].params)
         /\ WithinInterval(t)) =>
            /\ call[t].sent = <<>>
            /\ page_content[Self(t)] = entry[t].page_content
            /\ page_content[Self(t)] = prev[t].soup
            /\ result[t] = prev[t].result
\* Meet.list_races, which fetched a page with two tables, was run again and
\* returned the same two races without a request
C16_Witness ==
    \E t \in SeqThreads :
        /\ Extracted(t)
        /\ method[t].name = "Meet.list_races"
        /\ prev[t].method = method[t]
        /\ prev[t].requests = 1
        /\ RanOn(t, frame[t].params)
        /\ call[t].sent = <<>>
        /\ Len(result[t].records) = 2
        /\ result[t] = prev[t].result

\* list_results(e, g, k) follows list_races(e, g), which sent a request and
\* returned a race with race_id k
AfterListRaces(t) ==
    /\ method[t].name = "Meet.list_results"
    /\ prev[t].method.name = "Meet.list_races"
    /\ prev[t].method.args = <<method[t].args[1], method[t].args[2]>>
    /\ prev[t].requests = 1
    /\ prev[t].result.kind = "list"
    /\ \E i \in 1..Len(prev[t].result.records) :
          prev[t].result.records[i].race_id = method[t].args[3]

\* C17: on one Meet instance list_races(e, g) followed within the update
\* interval by list_results(e, g, k), k a race_id list_races returned, issues
\* one HTTP request in total, and list_results reads the table at position
\* k-1 of that same page, the table list_races labelled k.
C17_ResultsReadTheTableRacesLabelled ==
    \A t \in SeqThreads :
        (Extracted(t) /\ AfterListRaces(t) /\ WithinInterval(t)) =>
            /\ prev[t].requests + Len(call[t].sent) = 1
            /\ ret[t] = prev[t].soup
            /\ result[t].kind = "list"
            /\ result[t].records =
                 <<[table |-> PyItem(Containers(ret[t]), method[t].args[3] - 1)]>>
            /\ \A i \in 1..Len(prev[t].result.records) :
                  prev[t].result.records[i].race_id = method[t].args[3] =>
                      result[t].records[1].table =
                          prev[t].result.records[i].race_name
\* list_results(e, g, 2) has read the second table without a request
C17_Witness ==
    \E t \in SeqThreads :
        /\ Extracted(t)
        /\ AfterListRaces(t)
        /\ WithinInterval(t)
        /\ method[t].args[3] = 2
        /\ call[t].sent = <<>>
        /\ result[t] = ListResult(<<[table |-> "final"]>>)

\* a call of one of the three Meets operations with default arguments
DefaultMeetsView(m) ==
    /\ m.self = "meets"
    /\ m.args \in {<<>>, <<NoneArg, "RECENT">>}

\* C19: list_time_periods(), list_nations() and list_meets() with default
\* arguments are views of one fetched page: one of them called after another
\* on one Meets instance within the update interval issues no request.
C19_MeetsViewsShareOneRequest ==
    \A t \in SeqThreads :
        (/\ Extracted(t)
         /\ DefaultMeetsView(method[t])
         /\ DefaultMeetsView(prev[t].method)
         /\ prev[t].requests = 1
         /\ RanOn(t, MethodParams(prev[t].method))
         /\ WithinInterval(t)) =>
            call[t].sent = <<>>

\* the mapping of a request of Club.list_athletes(gender) on club e
ClubRequest(e, gender) ==
    [page |-> "rankingDetail", clubId |-> e, stroke |-> "9",
     athleteGender |-> CASE gender \in {0, -3} -> "CURRENT"
                         [] gender \in {1, -2} -> "ALL_MEN"
                         [] gender \in {2, -1} -> "All_WOMEN"]

InWindowAt(history, at) == SelectSeq(history, LAMBDA ts : ts > at - max_per)
\* the smallest timestamp of a non-empty history
Oldest(history) ==
    CHOOSE ts \in {history[i] : i \in 1..Len(history)} :
        \A i \in 1..Len(history) : ts <= history[i]
\* the time at which the sleep of thread t is due to end
WakeTime(t) == frame[t].current_time + frame[t].time_to_wait
Failed(t) == call[t].outcome \in {"httperr", "transport"}

\* C23: when check_request_rate_limit finds at least max_requests timestamps
\* newer than now - max_per it sleeps for oldest-in-window + max_per - now, and
\* when the sleep ends after exactly that time the history holds exactly the
\* timestamps inside the new trailing window.
C23_BlockedAdmitSleepsAndPrunes ==
    \A t \in SeqThreads :
        LET before == entry[t].request_history
            inWindow == InWindowAt(before, frame[t].current_time)
        IN /\ pc[t] = "sleep" =>
                 /\ Len(inWindow) >= max_requests_per_second
                 /\ frame[t].time_to_wait =
                        Oldest(inWindow) + max_per - frame[t].current_time
           /\ (pc[t] = "http_get" /\ call[t].slept /\ now = WakeTime(t)) =>
                 request_history = InWindowAt(before, now)
\* a caller has slept, woke on time, and part of the history was dropped
C23_Witness ==
    \E t \in SeqThreads :
        /\ pc[t] = "http_get"
        /\ call[t].slept
        /\ now = WakeTime(t)
        /\ request_history # <<>>
        /\ Len(request_history) < Len(entry[t].request_history)

\* C25 as stated: a get whose refresh fails with a transport error or an HTTP
\* error status leaves last_updated and the governor's history unchanged and
\* sets last_request to its mapping.
C25_FailedRefreshLeavesGovernorAlone ==
    \A t \in SeqThreads :
        (Returned(t) /\ Failed(t)) =>
            /\ last_updated[Self(t)] = entry[t].last_updated
            /\ request_history = entry[t].request_history
            /\ last_request[Self(t)] = frame[t].params

\* C25 (amended): a get whose refresh fails leaves last_updated unchanged,
\* records no timestamp and sets last_request to its mapping; the history is
\* unchanged unless check_request_rate_limit slept, and then it has lost the
\* timestamps that left the window.
C25_FailedRefreshRecordsNothing ==
    \A t \in SeqThreads :
        (Returned(t) /\ Failed(t)) =>
            /\ last_updated[Self(t)] = entry[t].last_updated
            /\ last_request[Self(t)] = frame[t].params
            /\ call[t].recorded = 0
            /\ request_history =
                 IF call[t].slept
                 THEN InWindowAt(entry[t].request_history, WakeTime(t))
                 ELSE entry[t].request_history
\* a call slept before its GET, which failed: the history has shrunk
C25_Witness ==
    \E t \in SeqThreads :
        /\ Returned(t)
        /\ Failed(t)
        /\ call[t].slept
        /\ request_history # entry[t].request_history
        /\ last_request[Self(t)] = frame[t].params

\* C28: a check_request_rate_limit call that does not sleep leaves the history
\* unchanged, expired timestamps included; the history shrinks only in a call
\* that sleeps, and add_request only appends one timestamp.
C28_OnlyBlockingAdmitShrinksHistory ==
    \A t \in SeqThreads :
        LET before == entry[t].request_history
        IN /\ (pc[t] \in {"http_get", "store", "add_request"}
                 /\ ~call[t].slept) => request_history = before
           /\ (Returned(t) /\ ~call[t].slept) =>
                 IF call[t].recorded = 0
                 THEN request_history = before
                 ELSE /\ call[t].recorded = 1
                      /\ Len(request_history) = Len(before) + 1
                      /\ SubSeq(request_history, 1, Len(before)) = before
                      /\ request_history[Len(request_history)] >= entry[t].now
                      /\ request_history[Len(request_history)] <= now
           /\ Len(request_history) < Len(before) => call[t].slept
\* a call was admitted without sleeping and an expired timestamp is still kept
C28_Witness ==
    \E t \in SeqThreads :
        /\ pc[t] = "http_get"
        /\ ~call[t].slept
        /\ call[t].admitted = 1
        /\ \E i \in 1..Len(request_history) :
              request_history[i] <= now - max_per

\* C24: after a get(P) whose fetch failed, a get(P) repeated at once, no time
\* having passed, issues no HTTP request, whatever the cache held, the cache
\* of an extractor that never fetched successfully included.  Thread t has
\* made the failed call, thread u repeats it after t set last_request.
C24_NoImmediateRetry ==
    \A t, u \in Threads :
        (/\ t # u
         /\ Returned(t) /\ Failed(t)
         /\ Returned(u)
         /\ Self(u) = Self(t)
         /\ frame[u].params = frame[t].params
         /\ entry[u].last_request = frame[t].params
         /\ now = entry[t].now) =>
            call[u].sent = <<>>

\* C30: each extractor has its own cache: a step that changes the cached
\* document, last_request or last_updated of extractor e is a statement of a
\* call on e; the governor's history is the only state the extractors share.
C30_ExtractorsHaveTheirOwnCache ==
    [][\A e \in Extractors :
          (\/ page_content'[e] # page_content[e]
           \/ last_request'[e] # last_request[e]
           \/ last_updated'[e] # last_updated[e]) =>
              \E t \in SeqThreads :
                  /\ pc[t] \in {"store", "set_last"}
                  /\ frame[t].self = e]_vars
\* a call on the meet has fetched while the athlete keeps another document
C30_Witness ==
    \E t \in SeqThreads :
        /\ Returned(t)
        /\ Self(t) = "meet"
        /\ call[t].outcome = "ok"
        /\ page_content["athlete"] # None
        /\ page_content["meet"] # None
        /\ page_content["athlete"] # page_content["meet"]
        /\ last_request["athlete"] # last_request["meet"]

\* C26: on return from check_request_rate_limit fewer than max_requests
\* timestamps lie inside the trailing window, for every history built by any
\* sequence of check_request_rate_limit and add_request calls, add_request
\* calls without a preceding check included.
C26_AdmitReturnsBelowLimit ==
    \A t \in SeqThreads :
        (pc[t] = "http_get" /\ max_requests_per_second >= 1) =>
            Len(InWindowAt(request_history, now)) < max_requests_per_second

\* C29: check_request_rate_limit returns without error for every
\* configuration with max_requests >= 0 and max_per > 0 and every history not
\* later than now; it sleeps at most once, for a time that is positive and at
\* most max_per.
C29_AdmitAlwaysReturns ==
    \A t \in SeqThreads :
        /\ pc[t] # "raised"
        /\ pc[t] = "sleep" =>
              frame[t].time_to_wait > 0 /\ frame[t].time_to_wait <= max_per
        /\ call[t].admitted <= 1

\* C27: for a well-formed page with n result tables, Meet.list_results with a
\* race_id outside 1..n (zero, negative or greater than n) returns no row of
\* any table and raises no exception.
C27_UnknownRaceGivesNoRows ==
    \A t \in SeqThreads :
        (/\ Extracted(t)
         /\ method[t].name = "Meet.list_results"
         /\ ret[t] # None
         /\ ret[t].shape.rows = "ok"
         /\ method[t].args[3] \notin 1..Len(Containers(ret[t]))) =>
            result[t] = ListResult(<<>>)

\* --------------------------------------------------- claims on convert_time
\* the text without one trailing marker
Unmarked(s) ==
    IF s # <<>> /\ s[Len(s)] = "M" THEN SubSeq(s, 1, Len(s) - 1) ELSE s
RECURSIVE Split(_, _)
\* the pieces of text between the occurrences of sep
Split(text, sep) ==
    IF \A i \in 1..Len(text) : text[i] # sep THEN <<text>>
    ELSE LET i == CHOOSE x \in 1..Len(text) :
                      text[x] = sep /\ \A y \in 1..(x - 1) : text[y] # sep
         IN <<SubSeq(text, 1, i - 1)>>
            \o Split(SubSeq(text, i + 1, Len(text)), sep)
Numeric(text) == text # <<>> /\ \A i \in 1..Len(text) : IsDigit(text[i])
\* the numeric components of a duration text, hours first, fraction last
Components(s) ==
    LET fields == Split(Unmarked(s), ":")
        last == Split(fields[Len(fields)], ".")
    IN SubSeq(fields, 1, Len(fields) - 1) \o last
\* h:mm:ss.f, mm:ss.f or ss.f with numeric components
IsDuration(s) ==
    LET fields == Split(Unmarked(s), ":")
    IN /\ Len(fields) \in 1..3
       /\ Len(Split(fields[Len(fields)], ".")) = 2
       /\ \A i \in 1..Len(Components(s)) : Numeric(Components(s)[i])
\* the components of a duration, padded with zero hours and minutes
Hours(s) ==
    IF Len(Components(s)) = 4 THEN Number(Components(s)[1]) ELSE 0
Minutes(s) ==
    IF Len(Components(s)) >= 3
    THEN Number(Components(s)[Len(Components(s)) - 2]) ELSE 0
Seconds(s) == Number(Components(s)[Len(Components(s)) - 1])
Fraction(s) == Components(s)[Len(Components(s))]
\* at most two digits for hours, minutes and seconds, at most six for the
\* fraction
FieldWidths(s) ==
    /\ Len(Fraction(s)) <= 6
    /\ \A i \in 1..(Len(Components(s)) - 1) : Len(Components(s)[i]) <= 2
\* hours*3600 + minutes*60 + seconds + fraction
Total(s) ==
    Value(Hours(s) * 3600 + Minutes(s) * 60 + Seconds(s),
          Number(Fraction(s)) * Pow10(6 - Len(Fraction(s))))
Converted == converted # NoConversion

\* a duration a clock can show: hours up to 23, minutes and seconds up to 59
ValidDuration(s) ==
    /\ IsDuration(s)
    /\ FieldWidths(s)
    /\ Hours(s) <= 23 /\ Minutes(s) <= 59 /\ Seconds(s) <= 59

\* C21: every valid duration string of shape h:mm:ss.f, mm:ss.f or ss.f,
\* with or without a trailing 'M', converts to
\* hours*3600 + minutes*60 + seconds + fraction, and with the marker it
\* converts to what the string without the marker converts to.
C21_ValidDurationsConvert ==
    (Converted /\ ValidDuration(time_str)) =>
        /\ converted = Total(time_str)
        /\ converted = convert_time(Unmarked(time_str))

\* "1:02:03.45M" has been converted to 3723.45
C21_Witness ==
    /\ time_str = <<"1", ":", "0", "2", ":", "0", "3", ".", "4", "5", "M">>
    /\ converted = Value(3723, 450000)

\* C22: a text that is not one of the three duration shapes, or has a
\* non-numeric component, makes convert_time fail with the format error
\* (ValueError) and nothing else, and list_personal_bests raises that same
\* error.
C22_MalformedTextRaisesFormatError ==
    \A t \in SeqThreads :
        (Converted /\ ~IsDuration(time_str)) =>
            /\ converted = RaiseConversion("ValueError")
            /\ Finished(t) => result[t] = Raise("ValueError")


====
